---------------------------- MODULE Spec2Model ----------------------------
(***************************************************************************)
(* Model of src/ui/window.rs of gnvim: the Window placement state machine  *)
(* (attached in a gtk::Fixed canvas / floating in its own gtk::Window),    *)
(* its scroll adjustment bridge to the remote editor, and its destruction. *)
(*                                                                         *)
(* Numbers.  Pixel arguments of set_position (f64) are modelled in tenths  *)
(* of a pixel (12 is 1.2).  Scroll values and cell heights (f64) are       *)
(* modelled by the integers they hold; the f64 arithmetic of the           *)
(* value-changed closure is computed with its IEEE-754 binary64 rounding   *)
(* (see F64CeilDiff).  MsgWindow, the frame that shows a grid's surface    *)
(* for messages, is modelled with the grid surfaces it borrows.            *)
(***************************************************************************)
EXTENDS Integers, Sequences, FiniteSets, TLC

\* ------------------------------------------------------------------ bounds
MaxCell == 3
MaxPending == 2
MaxWins == 2
MaxGen == 2

\* Scroll values (pixels) and cell heights handed to the f64 parameters.
Values == {0 - 1, 4, 7}
CellHeights == 0..MaxCell
\* <<lower, upper, page_size>> handed to set_adjustment
Ranges == {<<0 - 1, 7, 1>>}
\* <<x, y>> and <<w, h>> handed to set_position (f64, in tenths of a pixel)
Points == {<<12, 39>>, <<0 - 15, 0>>}
Extents == {<<101, 55>>, <<30, 0 - 15>>}
\* (i32, i32) sizes handed to resize and set_external
Sizes == {<<11, 6>>, <<4, 4>>}
\* the gtk::Window handed to set_external as the floating window's anchor
Anchors == {"main", "other"}
\* MsgWindow::set_pos: row (a row index held in an f64) and h (f64, in tenths)
Rows == {0, 2, 5}
Heights == {200, 0 - 15}
\* grid.get_grid_metrics() of grids 1 and 2: cols, and the cell size in tenths
Metrics == <<[cols |-> 3, cell_width |-> 75, cell_height |-> 175],
             [cols |-> 2, cell_width |-> 80, cell_height |-> 160]>>

\* ------------------------------------------------------- integer helpers
Abs(n) == IF n < 0 THEN 0 - n ELSE n

Sgn(n) == IF n < 0 THEN 0 - 1 ELSE IF n > 0 THEN 1 ELSE 0

Max2(a, b) == IF a < b THEN b ELSE a

Min2(a, b) == IF a < b THEN a ELSE b

RECURSIVE Pow2(_)
Pow2(n) == IF n <= 0 THEN 1 ELSE 2 * Pow2(n - 1)

\* 2^s mod b
RECURSIVE PowMod(_, _)
PowMod(s, b) == IF s <= 0 THEN 1 % b ELSE (2 * PowMod(s - 1, b)) % b

\* floor(log2 n), n >= 1
RECURSIVE Log2(_)
Log2(n) == IF n <= 1 THEN 0 ELSE 1 + Log2(n \div 2)

\* ceil(n / b) for an integer n and b > 0
CeilDiv(n, b) == 0 - ((0 - n) \div b)

\* ------------------------------------------------ f64 arithmetic (IEEE-754)
(***************************************************************************)
(* The closure computes  (last_value / cell_height                         *)
(*                         - adj.get_value() / cell_height).ceil()         *)
(* in binary64: two correctly rounded divisions, one correctly rounded     *)
(* subtraction (round to nearest, ties to even), then ceil.                *)
(*                                                                         *)
(* For integers a >= 1, b >= 1 let t be the integer with                   *)
(* b <= a * 2^t < 2b.  The 53-bit quotient is m0 = floor(a * 2^(52+t) / b) *)
(* with remainder r = a * 2^(52+t) mod b; it is rounded up iff 2r > b, or  *)
(* 2r = b and m0 is odd.  Hence fl(a/b) = a/b + Rho / (b * 2^(52+t)) with  *)
(* Rho = b - r (rounded up) or -r (rounded down).                          *)
(***************************************************************************)
RECURSIVE F64Exp(_, _)
F64Exp(a, b) ==
    IF a = 0 THEN 0
    ELSE IF a < b THEN F64Exp(2 * a, b) + 1
    ELSE IF a >= 2 * b THEN F64Exp(a, 2 * b) - 1
    ELSE 0

\* (a * 2^(52+t)) mod m
F64Rem(a, b, m) == ((a % m) * PowMod(52 + F64Exp(a, b), m)) % m

F64Rho(a, b) ==
    LET r == F64Rem(a, b, b)
        odd == F64Rem(a, b, 2 * b) >= b
        up == (2 * r > b) \/ (2 * r = b /\ odd)
    IN  IF r = 0 THEN 0 ELSE IF up THEN b - r ELSE 0 - r

(***************************************************************************)
(* With k = (L - N) / b an integer, the exact difference of the two        *)
(* rounded quotients is k + delta, delta = D / (b * 2^(52+T)), where       *)
(* D = sgn(L) Rho(|L|) 2^(T - tL) - sgn(N) Rho(|N|) 2^(T - tN) and         *)
(* T = max(tL, tN, 0).  The rounded difference exceeds k (so that ceil     *)
(* gives k + 1) iff delta is above half the gap from k to the next double  *)
(* above it: 2^(e-53) for 2^e <= |k| < 2^(e+1), and 2^(e-54) when k is     *)
(* negative and a power of two (a tie rounds to k, whose mantissa is       *)
(* even).  When (L - N) / b is no integer it is at least 1/b away from     *)
(* one, far more than the rounding errors, and ceil is that of the exact   *)
(* quotient.                                                               *)
(***************************************************************************)
F64Bumped(L, N, b) ==
    LET tL == F64Exp(Abs(L), b)
        tN == F64Exp(Abs(N), b)
        T == Max2(Max2(tL, tN), 0)
        D == Sgn(L) * F64Rho(Abs(L), b) * Pow2(T - tL)
             - Sgn(N) * F64Rho(Abs(N), b) * Pow2(T - tN)
        k == (L - N) \div b
        e == Log2(Abs(k))
    IN  IF k = 0 THEN D > 0
        ELSE IF k < 0 /\ Abs(k) = Pow2(e) THEN 4 * D > b * Pow2(T + e)
        ELSE 2 * D > b * Pow2(T + e)

\* (L / b - N / b).ceil() in binary64, b > 0
F64CeilDiff(L, N, b) ==
    IF (L - N) % b = 0
    THEN ((L - N) \div b) + (IF F64Bumped(L, N, b) THEN 1 ELSE 0)
    ELSE CeilDiv(L - N, b)

\* v / 0.0 in binary64
F64DivZero(v) == IF v = 0 THEN "nan" ELSE IF v > 0 THEN "pinf" ELSE "ninf"

\* window.rs:116-120: d as [kind: "fin" | "nan" | "pinf" | "ninf", v: Int]
ScrollDelta(L, N, ch) ==
    IF ch # 0 THEN [kind |-> "fin", v |-> F64CeilDiff(L, N, ch)]
    ELSE LET l == F64DivZero(L)
             n == F64DivZero(N)
         IN  IF l = "nan" \/ n = "nan" \/ l = n THEN [kind |-> "nan", v |-> 0]
             ELSE [kind |-> l, v |-> 0]


\* ------------------------------------------------------------------- state
Fixeds == {"f1", "f2"}

VARIABLES
    checks,        \* the toolkit build keeps its g_return_if_fail precondition checks
    alive,         \* the Window exists (constructed, not yet dropped)
    gen,           \* identity of the current Window's overlay widget
    parent,        \* Window.parent: the gtk::Fixed the Window believes it is in
    external_win,  \* Window.external_win: 0 is None, i > 0 is Some(wins[i])
    wins,          \* every floating gtk::Window created: [closes, child, anchor]
    o_parent,      \* the overlay widget's parent: "none", a Fixed, or "win"
    children,      \* each Fixed's child list: entries [o, x, y]
    x, y,          \* Window.x, Window.y (tenths of a pixel)
    size_req,      \* the overlay's size request <<w, h>>
    visible,       \* the overlay is shown
    scrollbar_visible,  \* the scrollbar's own visible flag
    grid_parent,   \* parent of the Window's grid's surface: "none", "overlay", "frame"
    overlay_child, \* the overlay's child pointer (get_child): 0 is None, else a grid
    other_parent,  \* parent of the surface of a grid without a Window: "none", "frame"
    frame_child,   \* the MsgWindow frame's child pointer: 0 is None, else a grid
    frame_pos,     \* where the frame is placed in the MsgWindow's Fixed
    frame_req,     \* the frame's size request <<w, h>>
    frame_scrolled,  \* the frame's style context has the class "scrolled"
    adj_value, adj_lower, adj_upper, adj_page_size,   \* the gtk::Adjustment
    last_value, cell_height,                          \* the shared Rc<RefCell<f64>>
    blocked,       \* block count of the value-changed handler
    pending,       \* spawned nvim.input tasks not yet resolved, oldest first
    faulted,       \* the process has panicked or crashed
    lastOp,        \* the operation that made the last step, with its arguments
    calls          \* toolkit/remote calls and signals of that operation, in order

msgVars == <<other_parent, frame_child, frame_pos, frame_req, frame_scrolled>>

placeVars == <<checks, alive, gen, parent, external_win, wins, o_parent, children,
               x, y, size_req, visible, scrollbar_visible, grid_parent, overlay_child,
               msgVars>>

scrollVars == <<adj_value, adj_lower, adj_upper, adj_page_size, last_value,
                cell_height, blocked, pending>>

vars == <<placeVars, scrollVars, faulted, lastOp, calls>>

Op(name, a, b, c, d) == [op |-> name, a |-> a, b |-> b, c |-> c, d |-> d]

Call(name, on, a, b) == [call |-> name, on |-> on, a |-> a, b |-> b]

\* --------------------------------------------------- toolkit: widget tree
(***************************************************************************)
(* The widget tree is the record [op, ch, w]: the overlay's parent, the    *)
(* Fixeds' child lists and the floating windows.  gtk_fixed_put,           *)
(* gtk_container_remove, gtk_bin_remove and gtk_fixed_move state their     *)
(* preconditions with g_return_if_fail: with the checks compiled in, a     *)
(* violating call logs a critical and returns; with G_DISABLE_CHECKS the   *)
(* call proceeds.  gtk_container_add and gtk_widget_set_parent test the    *)
(* "widget already has a parent" case with a plain if in every build.      *)
(***************************************************************************)
Tree == [op |-> o_parent, ch |-> children, w |-> wins]

FirstEntry(list, o) ==
    IF \E i \in 1..Len(list) : list[i].o = o
    THEN CHOOSE i \in 1..Len(list) :
            list[i].o = o /\ \A j \in 1..(i - 1) : list[j].o # o
    ELSE 0

RemoveAt(list, i) == [j \in 1..(Len(list) - 1) |-> IF j < i THEN list[j] ELSE list[j + 1]]

\* fixed.put(&overlay, px, py)
FixedPut(t, f, o, px, py) ==
    IF checks /\ t.op # "none" THEN t
    ELSE [t EXCEPT !.ch[f] = Append(@, [o |-> o, x |-> px, y |-> py]),
                   !.op = IF t.op = "none" THEN f ELSE @]

\* fixed.remove(&overlay)
FixedRemove(t, f, o) ==
    LET i == FirstEntry(t.ch[f], o)
    IN  IF (checks /\ t.op # f) \/ i = 0 THEN t
        ELSE [t EXCEPT !.ch[f] = RemoveAt(@, i), !.op = "none"]

\* fixed.add(&overlay): gtk_container_add, then gtk_fixed_add puts at (0, 0)
FixedAdd(t, f, o) == IF t.op # "none" THEN t ELSE FixedPut(t, f, o, 0, 0)

\* fixed.move_(&overlay, px, py); MoveFaults: no entry to move (unchecked build)
FixedMove(t, f, o, px, py) ==
    LET i == FirstEntry(t.ch[f], o)
    IN  IF (checks /\ t.op # f) \/ i = 0 THEN t
        ELSE [t EXCEPT !.ch[f][i].x = px, !.ch[f][i].y = py]

MoveFaults(t, f, o) == ~checks /\ FirstEntry(t.ch[f], o) = 0

\* win.add(&overlay) on the floating window wins[i]
WinAdd(t, i) ==
    IF t.op # "none" \/ t.w[i].child THEN t
    ELSE [t EXCEPT !.op = "win", !.w[i].child = TRUE]

\* win.remove(&overlay)
WinRemove(t, i) ==
    IF checks /\ t.op # "win" THEN t
    ELSE [t EXCEPT !.op = "none", !.w[i].child = FALSE]

\* win.close()
WinClose(t, i) == [t EXCEPT !.w[i].closes = @ + 1]

\* ------------------------------------------------- toolkit: grid surfaces
(***************************************************************************)
(* Grid 1 is the Window's grid, grid 2 a grid that has no Window.  The     *)
(* record [p, frame, overlay] holds each surface's parent and the child    *)
(* pointers of the two single-child containers, the MsgWindow's frame and  *)
(* the Window's overlay.  gtk_widget_unparent clears the widget's parent   *)
(* and leaves the container's child pointer alone; gtk_container_add and   *)
(* gtk_bin_add refuse (with a warning, in every build) a widget that has a *)
(* parent and a container that has a child.                                *)
(***************************************************************************)
Grids == {1, 2}

Bin == [p |-> <<grid_parent, other_parent>>, frame |-> frame_child,
        overlay |-> overlay_child]

\* frame.remove(&child)
FrameRemove(b, c) ==
    IF checks /\ b.p[c] # "frame" THEN b
    ELSE [b EXCEPT !.p[c] = "none", !.frame = 0]

\* w.unparent()
Unparent(b, g) == [b EXCEPT !.p[g] = "none"]

\* frame.add(&w)
FrameAdd(b, g) ==
    IF b.p[g] # "none" \/ b.frame # 0 THEN b
    ELSE [b EXCEPT !.p[g] = "frame", !.frame = g]

\* overlay.add(&widget)
OverlayAdd(b, g) ==
    IF b.p[g] # "none" \/ b.overlay # 0 THEN b
    ELSE [b EXCEPT !.p[g] = "overlay", !.overlay = g]

\* overlay.remove(&child)
OverlayRemove(b, c) ==
    IF checks /\ b.p[c] # "overlay" THEN b
    ELSE [b EXCEPT !.p[c] = "none", !.overlay = 0]

\* gtk_container_destroy of the overlay: a child it still holds is destroyed,
\* which takes that widget out of whatever container is its parent
OverlayDestroy(b) ==
    IF b.overlay = 0 THEN b
    ELSE [b EXCEPT !.overlay = 0,
                   !.p[b.overlay] = "none",
                   !.frame = IF b.p[b.overlay] = "frame" /\ @ = b.overlay THEN 0 ELSE @]

\* --------------------------------------------------------------- Window::new
Init ==
    /\ checks \in BOOLEAN
    /\ alive = TRUE
    /\ gen = 1
    /\ parent = "f1"
    /\ external_win = 0
    /\ wins = <<>>
    /\ o_parent = parent
    /\ children = [f \in Fixeds |->
                      IF f = parent THEN <<[o |-> 1, x |-> 0, y |-> 0]>> ELSE <<>>]
    /\ x = 0
    /\ y = 0
    /\ size_req = <<0 - 1, 0 - 1>>
    /\ visible = FALSE
    /\ scrollbar_visible = FALSE
    /\ grid_parent = "overlay"
    /\ overlay_child = 1
    /\ other_parent = "none"
    /\ frame_child = 0
    /\ frame_pos = <<0, 0>>
    /\ frame_req = <<0 - 1, 0 - 1>>
    /\ frame_scrolled = FALSE
    /\ adj_value = 0
    /\ adj_lower = 0
    /\ adj_upper = 0
    /\ adj_page_size = 0
    /\ last_value = 0
    /\ cell_height = 0
    /\ blocked = 0
    /\ pending = <<>>
    /\ faulted = FALSE
    /\ lastOp = Op("new", 0, 0, 0, 0)
    /\ calls = <<>>

\* ------------------------------------------------- scroll synchronisation
\* gtk_adjustment_configure / gtk_adjustment_set_value: MIN with upper - page_size,
\* then MAX with lower
Clamp(v, lower, upper, page) == Max2(Min2(v, upper - page), lower)

\* window.rs:121-125
ScrollOp(d) ==
    IF d.kind = "ninf" \/ (d.kind = "fin" /\ d.v < 0) THEN "<C-e>" ELSE "<C-y>"

\* window.rs:126  d.abs() as usize: NaN is 0, an infinity saturates to usize::MAX
AsUsize(d) ==
    IF d.kind = "fin" THEN [sat |-> FALSE, n |-> Abs(d.v)]
    ELSE IF d.kind = "nan" THEN [sat |-> FALSE, n |-> 0]
    ELSE [sat |-> TRUE, n |-> 0]

\* window.rs:113-132, the value-changed closure run with adj.get_value() = N:
\* str::repeat panics ("capacity overflow") on usize::MAX repetitions
Closure(L, ch, N) ==
    LET d == ScrollDelta(L, N, ch)
        n == AsUsize(d)
    IN  [fault |-> n.sat, op |-> ScrollOp(d), n |-> n.n]

\* the closure storing the new value as the baseline
HandlerBaseline_update(L, N) == N

\* window.rs:116: the closure only reads last_value
HandlerBaseline(L, N) == L

\* glib::signal_handler_block without effect
signal_handler_block_noop(b) == b

\* window.rs:175
signal_handler_block(b) == b + 1

\* window.rs:189
signal_handler_unblock(b) == IF b > 0 THEN b - 1 ELSE b

\* Emission of value-changed while the handler's block count is blk
Emit(blk, L, ch, N) ==
    IF blk > 0 THEN <<Call("value-changed", "blocked", 0, 0)>>
    ELSE LET c == Closure(L, ch, N)
         IN  IF c.fault THEN <<Call("value-changed", "panic", 0, 0)>>
             ELSE <<Call("value-changed", "handled", 0, 0), Call("input", c.op, c.n, 0)>>

IsInput(c) == c.call = "input"

IsPanic(c) == c.call = "value-changed" /\ c.on = "panic"

\* the nvim.input tasks spawned by a sequence of calls (window.rs:129-131)
Spawned(cs) ==
    LET ins == SelectSeq(cs, IsInput)
    IN  [i \in 1..Len(ins) |-> [op |-> ins[i].on, n |-> ins[i].a]]

Panicked(cs) == Len(SelectSeq(cs, IsPanic)) > 0

Running == alive /\ ~faulted

\* window.rs:165-190
set_adjustment(value, lower, upper, page_size, ch) ==
    /\ Running
    /\ LET b1 == signal_handler_block(blocked)
           nv == Clamp(value, lower, upper, page_size)
           em == IF nv # adj_value THEN Emit(b1, last_value, cell_height, nv) ELSE <<>>
       IN  /\ adj_value' = nv
           /\ adj_lower' = lower
           /\ adj_upper' = upper
           /\ adj_page_size' = page_size
           /\ calls' = <<Call("block", "adj", 0, 0), Call("configure", "adj", 0, 0)>>
                       \o em \o
                       (IF Panicked(em) THEN <<>> ELSE <<Call("unblock", "adj", 0, 0)>>)
           /\ pending' = pending \o Spawned(em)
           /\ IF Panicked(em)
              THEN /\ faulted' = TRUE
                   /\ blocked' = b1
                   /\ UNCHANGED <<last_value, cell_height>>
              ELSE /\ faulted' = FALSE
                   /\ last_value' = value
                   /\ cell_height' = ch
                   /\ blocked' = signal_handler_unblock(b1)
    /\ lastOp' = Op("set_adjustment", 0, 0, 0, 0)
    /\ UNCHANGED placeVars

\* The user drags the scrollbar: gtk_adjustment_set_value(N), which emits
\* value-changed when the clamped value differs (window.rs:113, 135)
scrollbar_set_value(N) ==
    /\ Running
    /\ Len(pending) < MaxPending
    /\ LET nv == Clamp(N, adj_lower, adj_upper, adj_page_size)
           em == Emit(blocked, last_value, cell_height, nv)
       IN  /\ nv # adj_value
           /\ adj_value' = nv
           /\ calls' = em
           /\ pending' = pending \o Spawned(em)
           /\ faulted' = Panicked(em)
           /\ last_value' = HandlerBaseline(last_value, nv)
    /\ lastOp' = Op("value_changed", 0, 0, 0, 0)
    /\ UNCHANGED <<adj_lower, adj_upper, adj_page_size, cell_height, blocked>>
    /\ UNCHANGED placeVars

\* window.rs:130: the future of pending[i] resolves to Ok
input_ok(i) ==
    /\ ~faulted
    /\ i \in 1..Len(pending)
    /\ pending' = RemoveAt(pending, i)
    /\ lastOp' = Op("input_ok", 0, 0, 0, 0)
    /\ calls' = <<>>
    /\ UNCHANGED <<adj_value, adj_lower, adj_upper, adj_page_size, last_value,
                   cell_height, blocked, faulted>>
    /\ UNCHANGED placeVars

\* the failed command staying scheduled, to be sent again
unwrap_err_retry(p, i) == p

\* window.rs:130: unwrap of Err ends the task of p[i]; nothing takes its place
unwrap_err(p, i) == RemoveAt(p, i)

\* window.rs:130: the future of pending[i] resolves to Err and unwrap panics
input_err(i) ==
    /\ ~faulted
    /\ i \in 1..Len(pending)
    /\ pending' = unwrap_err(pending, i)
    /\ faulted' = TRUE
    /\ lastOp' = Op("input_err", 0, 0, 0, 0)
    /\ calls' = <<>>
    /\ UNCHANGED <<adj_value, adj_lower, adj_upper, adj_page_size, last_value,
                   cell_height, blocked>>
    /\ UNCHANGED placeVars

NextScroll ==
    \/ \E v \in Values, r \in Ranges, ch \in CellHeights :
          set_adjustment(v, r[1], r[2], r[3], ch)
    \/ \E N \in Values : scrollbar_set_value(N)
    \/ \E i \in 1..MaxPending : input_ok(i)
    \/ \E i \in 1..MaxPending : input_err(i)

SpecScroll == Init /\ [][NextScroll]_vars

\* ------------------------------------------------ placement and reparenting
\* window.rs:201 without the comparison
ParentDiffers_always(f) == TRUE

\* window.rs:201
ParentDiffers(f) == parent # f

\* window.rs:200-206
set_parent(f) ==
    /\ Running
    /\ LET t1 == FixedRemove(Tree, parent, gen)
           t2 == FixedPut(t1, f, gen, 0, 0)
       IN  IF ParentDiffers(f)
           THEN /\ parent' = f
                /\ o_parent' = t2.op
                /\ children' = t2.ch
                /\ calls' = <<Call("remove", parent, 0, 0), Call("put", f, 0, 0)>>
           ELSE /\ UNCHANGED <<parent, o_parent, children>>
                /\ calls' = <<>>
    /\ lastOp' = Op("set_parent", 0, 0, 0, 0)
    /\ UNCHANGED <<checks, alive, gen, external_win, wins, x, y, size_req, visible,
                   scrollbar_visible, grid_parent, overlay_child, faulted>>
    /\ UNCHANGED <<scrollVars, msgVars>>

\* window.rs:208-210
resize(size) ==
    /\ Running
    /\ size_req' = size
    /\ lastOp' = Op("resize", 0, 0, 0, 0)
    /\ calls' = <<Call("set_size_request", "overlay", size[1], size[2])>>
    /\ UNCHANGED <<checks, alive, gen, parent, external_win, wins, o_parent, children,
                   x, y, visible, scrollbar_visible, grid_parent, overlay_child, faulted>>
    /\ UNCHANGED <<scrollVars, msgVars>>

\* window.rs:213 without the early return
IsExternal_never == FALSE

\* window.rs:213
IsExternal == external_win # 0

\* window.rs:212-233
set_external(anchor, size) ==
    /\ Running
    /\ IsExternal \/ Len(wins) < MaxWins
    /\ LET i == Len(wins) + 1
           t0 == [Tree EXCEPT !.w = Append(@, [closes |-> 0, child |-> FALSE,
                                                anchor |-> anchor])]
           t1 == FixedRemove(t0, parent, gen)
           t2 == WinAdd(t1, i)
       IN  IF IsExternal
           THEN /\ UNCHANGED <<external_win, wins, o_parent, children, size_req, visible,
                                scrollbar_visible>>
                /\ calls' = <<>>
           ELSE /\ external_win' = i
                /\ wins' = t2.w
                /\ o_parent' = t2.op
                /\ children' = t2.ch
                /\ size_req' = size
                /\ visible' = TRUE
                /\ scrollbar_visible' = TRUE
                /\ calls' = <<Call("set_size_request", "overlay", size[1], size[2]),
                              Call("window_new", "win", i, 0),
                              Call("remove", parent, 0, 0),
                              Call("add", "win", i, 0),
                              Call("set_transient_for", anchor, i, 0),
                              Call("set_attached_to", anchor, i, 0),
                              Call("show_all", "win", i, 0)>>
    /\ lastOp' = Op("set_external", 0, 0, 0, 0)
    /\ UNCHANGED <<checks, alive, gen, parent, x, y, grid_parent, overlay_child, faulted>>
    /\ UNCHANGED <<scrollVars, msgVars>>

\* window.rs:236-240 without closing the floating window
Reattach_noclose(t, i) == FixedAdd(WinRemove(t, i), parent, gen)

\* window.rs:236-240
Reattach(t, i) == WinClose(FixedAdd(WinRemove(t, i), parent, gen), i)

\* f64::floor replaced by the truncation of a bare "as i32"
Floor_trunc(v) == IF v < 0 THEN 0 - ((0 - v) \div 10) ELSE v \div 10

\* window.rs:245  f64::floor of a value in tenths, as i32
Floor(v) == v \div 10

\* window.rs:248  f64::ceil of a value in tenths, as i32
Ceil(v) == 0 - ((0 - v) \div 10)

\* window.rs:235-249
set_position(px, py, pw, ph) ==
    /\ Running
    /\ LET t1 == IF external_win # 0 THEN Reattach(Tree, external_win) ELSE Tree
           t2 == FixedMove(t1, parent, gen, Floor(px), Floor(py))
       IN  /\ external_win' = 0
           /\ wins' = t2.w
           /\ o_parent' = t2.op
           /\ children' = t2.ch
           /\ faulted' = MoveFaults(t1, parent, gen)
           /\ calls' = (IF external_win # 0
                        THEN <<Call("remove", "win", external_win, 0),
                               Call("add", parent, 0, 0),
                               Call("close", "win", external_win, 0)>>
                        ELSE <<>>)
                       \o <<Call("move", parent, Floor(px), Floor(py)),
                            Call("set_size_request", "overlay", Ceil(pw), Ceil(ph))>>
    /\ x' = px
    /\ y' = py
    /\ size_req' = <<Ceil(pw), Ceil(ph)>>
    /\ lastOp' = Op("set_position", px, py, pw, ph)
    /\ UNCHANGED <<checks, alive, gen, parent, visible, scrollbar_visible, grid_parent,
                   overlay_child>>
    /\ UNCHANGED <<scrollVars, msgVars>>

\* gtk_widget_show / gtk_widget_show_all on a widget whose visible flag is v
widget_show(v) == TRUE

\* gtk_widget_hide without effect
widget_hide_noop(v) == v

\* gtk_widget_hide on a widget whose visible flag is v
widget_hide(v) == FALSE

\* window.rs:251-253: show_all shows the overlay and, recursively, its scrollbar
show ==
    /\ Running
    /\ visible' = widget_show(visible)
    /\ scrollbar_visible' = widget_show(scrollbar_visible)
    /\ lastOp' = Op("show", 0, 0, 0, 0)
    /\ calls' = <<Call("show_all", "overlay", 0, 0)>>
    /\ UNCHANGED <<checks, alive, gen, parent, external_win, wins, o_parent, children,
                   x, y, size_req, grid_parent, overlay_child, faulted>>
    /\ UNCHANGED <<scrollVars, msgVars>>

\* window.rs:255-257
hide ==
    /\ Running
    /\ visible' = widget_hide(visible)
    /\ lastOp' = Op("hide", 0, 0, 0, 0)
    /\ calls' = <<Call("hide", "overlay", 0, 0)>>
    /\ UNCHANGED <<checks, alive, gen, parent, external_win, wins, o_parent, children,
                   x, y, size_req, scrollbar_visible, grid_parent, overlay_child, faulted>>
    /\ UNCHANGED <<scrollVars, msgVars>>

\* window.rs:192-194
hide_scrollbar ==
    /\ Running
    /\ scrollbar_visible' = widget_hide(scrollbar_visible)
    /\ lastOp' = Op("hide_scrollbar", 0, 0, 0, 0)
    /\ calls' = <<Call("hide", "scrollbar", 0, 0)>>
    /\ UNCHANGED <<checks, alive, gen, parent, external_win, wins, o_parent, children,
                   x, y, size_req, visible, grid_parent, overlay_child, faulted>>
    /\ UNCHANGED <<scrollVars, msgVars>>

\* window.rs:196-198
show_scrollbar ==
    /\ Running
    /\ scrollbar_visible' = widget_show(scrollbar_visible)
    /\ lastOp' = Op("show_scrollbar", 0, 0, 0, 0)
    /\ calls' = <<Call("show", "scrollbar", 0, 0)>>
    /\ UNCHANGED <<checks, alive, gen, parent, external_win, wins, o_parent, children,
                   x, y, size_req, visible, grid_parent, overlay_child, faulted>>
    /\ UNCHANGED <<scrollVars, msgVars>>

\* window.rs:262-266: the overlay's child, if it has one, is removed
DropChild(b) == IF b.overlay # 0 THEN OverlayRemove(b, b.overlay) ELSE b

\* The overlay is disposed once nothing holds it: its Fixed has let it go, or
\* the floating window holding it is closed (window.rs:268-272)
OverlayDisposed(t) == t.op = "none" \/ (external_win # 0 /\ t.op = "win")

\* window.rs:270-272 without the close
DropClose_never(t) == t

\* window.rs:270-272
DropClose(t) == IF external_win # 0 THEN WinClose(t, external_win) ELSE t

\* window.rs:260-274
drop ==
    /\ Running
    /\ LET t1 == FixedRemove(Tree, parent, gen)
           t2 == DropClose(t1)
           b1 == DropChild(Bin)
           b2 == IF OverlayDisposed(t1) THEN OverlayDestroy(b1) ELSE b1
       IN  /\ wins' = t2.w
           /\ o_parent' = t2.op
           /\ children' = t2.ch
           /\ calls' = (IF overlay_child # 0
                        THEN <<Call("remove", "overlay", overlay_child, 0)>> ELSE <<>>)
                       \o <<Call("remove", parent, 0, 0)>>
                       \o (IF external_win # 0
                           THEN <<Call("close", "win", external_win, 0)>> ELSE <<>>)
                       \o (IF b2 # b1
                           THEN <<Call("destroy", "surface", b1.overlay, 0)>> ELSE <<>>)
           /\ grid_parent' = b2.p[1]
           /\ other_parent' = b2.p[2]
           /\ overlay_child' = b2.overlay
           /\ frame_child' = b2.frame
    /\ alive' = FALSE
    /\ lastOp' = Op("drop", 0, 0, 0, 0)
    /\ UNCHANGED <<checks, gen, parent, external_win, x, y, size_req, visible,
                   scrollbar_visible, faulted>>
    /\ UNCHANGED <<frame_pos, frame_req, frame_scrolled>>
    /\ UNCHANGED scrollVars

\* window.rs:96-163: a Window is constructed for the same grid after a drop
new(f) ==
    /\ ~alive /\ ~faulted
    /\ gen < MaxGen
    /\ alive' = TRUE
    /\ gen' = gen + 1
    /\ parent' = f
    /\ external_win' = 0
    /\ o_parent' = f
    /\ children' = [children EXCEPT ![f] = Append(@, [o |-> gen + 1, x |-> 0, y |-> 0])]
    /\ x' = 0
    /\ y' = 0
    /\ size_req' = <<0 - 1, 0 - 1>>
    /\ visible' = FALSE
    /\ scrollbar_visible' = FALSE
    /\ LET b1 == OverlayAdd([Bin EXCEPT !.overlay = 0], 1)
       IN  /\ grid_parent' = b1.p[1]
           /\ overlay_child' = b1.overlay
    /\ adj_value' = 0
    /\ adj_lower' = 0
    /\ adj_upper' = 0
    /\ adj_page_size' = 0
    /\ last_value' = 0
    /\ cell_height' = 0
    /\ blocked' = 0
    /\ lastOp' = Op("new", 0, 0, 0, 0)
    /\ calls' = <<Call("put", f, 0, 0), Call("add", "overlay", 1, 0)>>
    /\ UNCHANGED <<checks, wins, pending, faulted>>
    /\ UNCHANGED msgVars

NextPlace ==
    \/ \E f \in Fixeds : set_parent(f)
    \/ \E s \in Sizes : resize(s)
    \/ \E a \in Anchors, s \in Sizes : set_external(a, s)
    \/ \E p \in Points, e \in Extents : set_position(p[1], p[2], e[1], e[2])
    \/ show
    \/ hide
    \/ drop
    \/ \E f \in Fixeds : new(f)

SpecPlace == Init /\ [][NextPlace]_vars

\* ------------------------------------------- size, visibility and scrollbar
NextView ==
    \/ \E s \in Sizes : resize(s)
    \/ show
    \/ hide
    \/ show_scrollbar
    \/ hide_scrollbar
    \/ \E a \in Anchors, s \in Sizes : set_external(a, s)
    \/ \E p \in Points, e \in Extents : set_position(p[1], p[2], e[1], e[2])
    \/ \E v \in Values, r \in Ranges, ch \in CellHeights :
          set_adjustment(v, r[1], r[2], r[3], ch)

SpecView == Init /\ [][NextView]_vars

\* ---------------------------------------------------------------- MsgWindow
\* window.rs:43 without the comparison
SurfaceDiffers_always(w, child) == TRUE

\* window.rs:43
SurfaceDiffers(w, child) == w # child

\* window.rs:42-50
BindSurface(b, w) ==
    IF b.frame # 0
    THEN IF SurfaceDiffers(w, b.frame)
         THEN FrameAdd(Unparent(FrameRemove(b, b.frame), w), w)
         ELSE b
    ELSE FrameAdd(b, w)

BindCalls(b, w) ==
    IF b.frame # 0
    THEN IF SurfaceDiffers(w, b.frame)
         THEN <<Call("remove", "frame", b.frame, 0), Call("unparent", "surface", w, 0),
                Call("add", "frame", w, 0)>>
         ELSE <<>>
    ELSE <<Call("add", "frame", w, 0)>>

\* window.rs:67  a bare "as i32" of a value in tenths: truncation toward zero
AsI32(v) == IF v < 0 THEN 0 - ((0 - v) \div 10) ELSE v \div 10

\* window.rs:37-70
msg_set_pos(grid, row, h, scrolled) ==
    /\ ~faulted
    /\ LET b1 == BindSurface(Bin, grid)
           metrics == Metrics[grid]
           w == metrics.cols * metrics.cell_width
           py == AsI32(metrics.cell_height * row)
       IN  /\ grid_parent' = b1.p[1]
           /\ other_parent' = b1.p[2]
           /\ frame_child' = b1.frame
           /\ overlay_child' = b1.overlay
           /\ frame_scrolled' = scrolled
           /\ frame_req' = <<Ceil(w), Ceil(h)>>
           /\ frame_pos' = <<0, py>>
           /\ calls' = BindCalls(Bin, grid)
                       \o <<Call(IF scrolled THEN "add_class" ELSE "remove_class",
                                 "frame", 0, 0),
                            Call("set_size_request", "frame", Ceil(w), Ceil(h)),
                            Call("move", "frame", 0, py),
                            Call("show_all", "fixed", 0, 0)>>
    /\ lastOp' = Op("msg_set_pos", grid, row, h, IF scrolled THEN 1 ELSE 0)
    /\ UNCHANGED <<checks, alive, gen, parent, external_win, wins, o_parent, children,
                   x, y, size_req, visible, scrollbar_visible, faulted>>
    /\ UNCHANGED scrollVars

NextMsg ==
    \/ \E g \in Grids, r \in Rows, h \in Heights, sc \in BOOLEAN : msg_set_pos(g, r, h, sc)
    \/ drop
    \/ \E f \in Fixeds : new(f)

SpecMsg == Init /\ [][NextMsg]_vars

Next == NextScroll \/ NextPlace \/ NextView \/ NextMsg

Spec == Init /\ [][Next]_vars

\* ------------------------------------------------------------------ claims
HasCall(cs, name, on) == \E i \in 1..Len(cs) : cs[i].call = name /\ cs[i].on = on

Entries(f, o) == {i \in 1..Len(children[f]) : children[f][i].o = o}

\* C1: a set_adjustment call, whatever its arguments and even when it changes
\* the adjustment's value, spawns no nvim.input task.
C1_NoScrollOnSetAdjustment ==
    [][lastOp'.op = "set_adjustment"
         => Spawned(calls') = <<>> /\ pending' = pending /\ ~faulted']_vars

C1_Witness ==
    /\ lastOp.op = "set_adjustment"
    /\ HasCall(calls, "value-changed", "blocked")
    /\ cell_height > 0
    /\ last_value = 4

\* C2 (as claimed): an unsuppressed value change to N with baseline L and
\* ch > 0 dispatches the single-row primitive repeated |d| times, d =
\* ceil((L - N) / ch): <C-e> when d < 0, <C-y> when d > 0.
C2_RowCountIsCeil ==
    (lastOp.op = "value_changed" /\ cell_height > 0)
        => LET d == CeilDiv(last_value - adj_value, cell_height)
           IN  /\ Len(Spawned(calls)) = 1
               /\ Spawned(calls)[1].n = Abs(d)
               /\ d < 0 => Spawned(calls)[1].op = "<C-e>"
               /\ d > 0 => Spawned(calls)[1].op = "<C-y>"

\* C3 (as claimed): with cell_height = 0 an unsuppressed value change emits
\* no scroll command and causes no fault.  "No scroll command" is read in the
\* code's favour: an input of zero repetitions (the empty string) is not
\* counted as one.
C3_ZeroCellHeightIsGuarded ==
    (lastOp.op = "value_changed" /\ cell_height = 0)
        => /\ \A i \in 1..Len(Spawned(calls)) : Spawned(calls)[i].n = 0
           /\ ~faulted

\* C4: last_value and cell_height change only in a set_adjustment step: the
\* value-changed closure, the spawn of an input task and the task's
\* completion or failure leave both unchanged.
C4_BaselineOnlyBySetAdjustment ==
    [][(last_value' # last_value \/ cell_height' # cell_height)
         => lastOp'.op = "set_adjustment"]_vars

C4_Witness ==
    /\ lastOp.op = "input_err"
    /\ faulted
    /\ cell_height > 0
    /\ last_value # adj_value

\* C5 (as claimed): while the Window is Floating its overlay is in no
\* Fixed's child list; while Attached it has exactly one entry, in parent.
C5_ModeMatchesCanvas ==
    alive =>
        IF external_win # 0
        THEN \A f \in Fixeds : Entries(f, gen) = {}
        ELSE /\ Cardinality(Entries(parent, gen)) = 1
             /\ \A f \in Fixeds \ {parent} : Entries(f, gen) = {}

\* C6: set_external on an Attached Window followed by set_position ends
\* Attached: external_win is None, the overlay is a child of parent and not
\* of the floating window, and that window has been closed.
C6_ExternalThenPosition ==
    [][(lastOp.op = "set_external" /\ calls # <<>> /\ lastOp'.op = "set_position")
         => /\ external_win' = 0
            /\ o_parent' = parent'
            /\ Entries(parent, gen)' # {}
            /\ ~wins'[external_win].child
            /\ wins'[external_win].closes = 1
            /\ \A i \in 1..Len(wins') : wins'[i].closes > 0
            /\ ~faulted']_vars

C6_Witness ==
    /\ lastOp.op = "set_position"
    /\ HasCall(calls, "close", "win")
    /\ external_win = 0
    /\ o_parent = parent
    /\ Len(wins) = 1
    /\ wins[1].closes = 1

OpenWins == {i \in 1..Len(wins) : wins[i].closes = 0}

\* C7: set_external on a Floating Window changes nothing: no window is
\* created; the floating window, its anchor and the overlay's parent stay as
\* they are, and exactly one floating window is open afterwards.
C7_SetExternalTwice ==
    [][(external_win # 0 /\ lastOp'.op = "set_external")
         => /\ calls' = <<>>
            /\ UNCHANGED <<external_win, wins, o_parent, children, parent, size_req,
                           visible, x, y>>
            /\ OpenWins' = {external_win'}]_vars

C7_Witness ==
    /\ lastOp.op = "set_external"
    /\ calls = <<>>
    /\ external_win # 0
    /\ wins[external_win].anchor = "main"
    /\ OpenWins = {external_win}
    /\ o_parent = "win"

\* C8: set_parent(c) with parent = c calls neither remove nor put (so the
\* second of two set_parent(c) calls does nothing); with parent # c it calls
\* remove on the old Fixed once and put on c at (0, 0) once, which for an
\* Attached Window takes one entry out of the old list and adds one to c's.
C8_SetParentIdempotent ==
    [][lastOp'.op = "set_parent"
         => IF parent' = parent
            THEN calls' = <<>> /\ UNCHANGED <<o_parent, children>>
            ELSE /\ calls' = <<Call("remove", parent, 0, 0), Call("put", parent', 0, 0)>>
                 /\ external_win = 0 =>
                      /\ Len(children'[parent]) = Len(children[parent]) - 1
                      /\ children'[parent'] =
                           Append(children[parent'], [o |-> gen, x |-> 0, y |-> 0])
                      /\ o_parent' = parent']_vars

C8_Witness ==
    /\ lastOp.op = "set_parent"
    /\ calls = <<>>
    /\ parent = "f2"
    /\ external_win = 0
    /\ Cardinality(Entries("f2", gen)) = 1
    /\ Entries("f1", gen) = {}

\* C9 (as claimed): set_position(x, y, w, h) leaves the stored position equal
\* to (floor(x), floor(y)) and requests the size (ceil(w), ceil(h)).
C9_StoredPositionIsFloor ==
    lastOp.op = "set_position"
        => /\ x = 10 * (lastOp.a \div 10)
           /\ y = 10 * (lastOp.b \div 10)
           /\ size_req = <<CeilDiv(lastOp.c, 10), CeilDiv(lastOp.d, 10)>>

\* C9 (amended): set_position(x, y, w, h) stores x and y unrounded in the
\* fields x and y, moves the overlay in parent to (floor(x), floor(y)) and
\* requests the size (ceil(w), ceil(h)).
C9_PlacementIsFloor ==
    lastOp.op = "set_position"
        => /\ x = lastOp.a
           /\ y = lastOp.b
           /\ HasCall(calls, "move", parent)
           /\ \A i \in 1..Len(calls) :
                calls[i].call = "move" =>
                    calls[i].a = lastOp.a \div 10 /\ calls[i].b = lastOp.b \div 10
           /\ \E i \in Entries(parent, gen) :
                /\ children[parent][i].x = lastOp.a \div 10
                /\ children[parent][i].y = lastOp.b \div 10
           /\ size_req = <<CeilDiv(lastOp.c, 10), CeilDiv(lastOp.d, 10)>>

C9_Witness ==
    /\ lastOp = Op("set_position", 12, 39, 101, 55)
    /\ x = 12
    /\ y = 39
    /\ \E i \in Entries(parent, gen) :
          children[parent][i].x = 1 /\ children[parent][i].y = 3
    /\ size_req = <<11, 6>>

\* C10 (as claimed): dropping a Window, Attached or Floating, leaves the
\* grid's surface without a parent (removed, not destroyed), closes the
\* floating window if there is one, and leaves the overlay in no Fixed's
\* child list.
C10_DropReleasesSurface ==
    lastOp.op = "drop"
        => /\ grid_parent = "none"
           /\ external_win # 0 => wins[external_win].closes = 1
           /\ \A f \in Fixeds : Entries(f, gen) = {}

\* C11: set_pos(grid, row, h, scrolled) on a MsgWindow whose frame already
\* holds grid's surface calls no remove, unparent or add and changes no
\* surface's parent; the frame is moved to (0, floor(row * cell_height)), its
\* size request becomes (ceil(cols * cell_width), ceil(h)), and it has the
\* class "scrolled" exactly when scrolled is true.
C11_SameSurfaceNoReparent ==
    [][(lastOp'.op = "msg_set_pos" /\ frame_child = lastOp'.a)
         => /\ ~HasCall(calls', "remove", "frame")
            /\ ~HasCall(calls', "unparent", "surface")
            /\ ~HasCall(calls', "add", "frame")
            /\ UNCHANGED <<grid_parent, other_parent, frame_child, overlay_child>>
            /\ frame_pos' = <<0, (lastOp'.b * Metrics[lastOp'.a].cell_height) \div 10>>
            /\ frame_req' = <<CeilDiv(Metrics[lastOp'.a].cols
                                        * Metrics[lastOp'.a].cell_width, 10),
                              CeilDiv(lastOp'.c, 10)>>
            /\ frame_scrolled' = (lastOp'.d = 1)]_vars

C11_Witness ==
    /\ lastOp = Op("msg_set_pos", 1, 5, 200, 1)
    /\ calls[1].call = "add_class"
    /\ frame_child = 1
    /\ grid_parent = "frame"
    /\ frame_pos = <<0, 87>>
    /\ frame_req = <<23, 20>>
    /\ frame_scrolled

\* C12 (as claimed): after set_pos(grid, ...), whatever the frame held before
\* and wherever grid's surface was parented, the frame's child is grid's
\* surface, the surface's parent is the frame, and no other container (the
\* Window's overlay) still holds it as its child.
C12_FrameHoldsSurface ==
    lastOp.op = "msg_set_pos"
        => /\ frame_child = lastOp.a
           /\ Bin.p[lastOp.a] = "frame"
           /\ overlay_child # lastOp.a

\* C13 (as claimed): set_position and MsgWindow::set_pos never request a
\* negative size: a negative width or height is clamped to zero.
C13_SizeRequestClamped ==
    /\ lastOp.op = "set_position" => size_req[1] >= 0 /\ size_req[2] >= 0
    /\ lastOp.op = "msg_set_pos" => frame_req[1] >= 0 /\ frame_req[2] >= 0

ViewOps == {"resize", "show", "hide", "show_scrollbar", "hide_scrollbar"}

\* C14: resize, show, hide, show_scrollbar and hide_scrollbar leave the mode
\* (external_win and the floating windows), the stored position, the parent
\* canvas and the overlay's place in it, and the scroll state unchanged.
\* resize sets the overlay's size request to its argument and changes no
\* visibility; show and hide change only visibility (show makes the overlay
\* and, with it, the scrollbar visible; hide makes the overlay invisible);
\* show_scrollbar and hide_scrollbar change only the scrollbar's visibility.
C14_ViewOpsFrame ==
    [][lastOp'.op \in ViewOps
         => /\ UNCHANGED <<external_win, wins, x, y, parent, o_parent, children>>
            /\ UNCHANGED <<scrollVars, grid_parent, overlay_child, msgVars, faulted>>
            /\ lastOp'.op = "resize"
                  => /\ size_req' = <<calls'[1].a, calls'[1].b>>
                     /\ UNCHANGED <<visible, scrollbar_visible>>
            /\ lastOp'.op # "resize" => UNCHANGED size_req
            /\ lastOp'.op = "show" => visible' /\ scrollbar_visible'
            /\ lastOp'.op = "hide" => ~visible' /\ UNCHANGED scrollbar_visible
            /\ lastOp'.op = "show_scrollbar" => scrollbar_visible' /\ UNCHANGED visible
            /\ lastOp'.op = "hide_scrollbar" => ~scrollbar_visible' /\ UNCHANGED visible]_vars

C14_Witness ==
    /\ lastOp.op = "hide_scrollbar"
    /\ ~scrollbar_visible
    /\ visible
    /\ external_win # 0
    /\ x = 12
    /\ size_req = <<4, 4>>
    /\ cell_height = 3
    /\ last_value = 7

\* C15 (as claimed): every unsuppressed value change returns without a fault
\* having scheduled exactly one nvim.input call, queued behind the calls
\* scheduled by earlier value changes, none of which it completes, cancels or
\* merges; a completing call may be any of the pending ones.
C15_OneCallPerChange ==
    [][lastOp'.op = "value_changed"
         => /\ ~faulted'
            /\ Len(Spawned(calls')) = 1
            /\ pending' = pending \o Spawned(calls')]_vars

\* C16 (as claimed): of two successive unsuppressed value changes with no
\* set_adjustment between them and cell_height > 0, each dispatches
\* |ceil((L - N) / ch)| rows, L being the baseline last_value for both.
C16_RowsFromBaseline ==
    [][(lastOp.op = "value_changed" /\ lastOp'.op = "value_changed" /\ cell_height > 0)
         => /\ Len(Spawned(calls)) = 1 /\ Len(Spawned(calls')) = 1
            /\ Spawned(calls)[1].n = Abs(CeilDiv(last_value - adj_value, cell_height))
            /\ Spawned(calls')[1].n = Abs(CeilDiv(last_value - adj_value', cell_height))]_vars

\* C17: over set_external, set_position, set_parent and destruction, at most
\* one floating window is open at any time: the one in external_win while
\* the Window lives and is Floating, none otherwise (so none stays open after
\* the Window is dropped), and no floating window is ever closed twice.
C17_FloatingClosedOnce ==
    /\ Cardinality(OpenWins) <= 1
    /\ \A i \in 1..Len(wins) : wins[i].closes <= 1
    /\ OpenWins = IF alive /\ external_win # 0 THEN {external_win} ELSE {}

C17_Witness ==
    /\ lastOp.op = "drop"
    /\ ~alive
    /\ external_win = 2
    /\ Len(wins) = 2
    /\ wins[1].closes = 1
    /\ wins[2].closes = 1
    /\ parent = "f2"

\* C18: when the future of a dispatched command resolves to an error, the
\* fault is fatal (faulted), the failed task is gone and no other task is
\* added or changed (no retry, no replacement, no input call), and the mode,
\* the position, last_value, cell_height and the adjustment stay as they were.
C18_FailureIsFatalOnly ==
    [][lastOp'.op = "input_err"
         => /\ faulted'
            /\ calls' = <<>>
            /\ \E i \in 1..Len(pending) : pending' = RemoveAt(pending, i)
            /\ UNCHANGED <<last_value, cell_height, adj_value, adj_lower, adj_upper,
                           adj_page_size, blocked>>
            /\ UNCHANGED placeVars]_vars

C18_Witness ==
    /\ lastOp.op = "input_err"
    /\ faulted
    /\ pending = <<[op |-> "<C-y>", n |-> 3]>>
    /\ last_value = 7
    /\ cell_height = 3
    /\ adj_value = 4

\* C19 (as claimed): the handler is blocked only inside a set_adjustment call
\* (block first, unblock last, block count 0 in every state between calls),
\* and the first user value change after a set_adjustment call dispatches a
\* command, the one computed from the last_value and cell_height which that
\* call stored.
C19_SuppressionScoped ==
    [][/\ blocked' = 0
       /\ lastOp'.op = "set_adjustment"
            => /\ calls'[1].call = "block"
               /\ calls'[Len(calls')].call = "unblock"
               /\ \A i \in 2..(Len(calls') - 1) : calls'[i].call \notin {"block", "unblock"}
       /\ (lastOp.op = "set_adjustment" /\ lastOp'.op = "value_changed")
            => /\ ~faulted'
               /\ HasCall(calls', "value-changed", "handled")
               /\ Len(Spawned(calls')) = 1
               /\ LET c == Closure(last_value, cell_height, adj_value')
                  IN  Spawned(calls')[1] = [op |-> c.op, n |-> c.n]]_vars

\* C20 (as claimed): while the Window is Attached, its overlay is placed in
\* parent at (floor(x), floor(y)), x and y being the stored position.
C20_PlacementAgreesWithPosition ==
    (alive /\ external_win = 0)
        => /\ Entries(parent, gen) # {}
           /\ \A i \in Entries(parent, gen) :
                /\ children[parent][i].x = x \div 10
                /\ children[parent][i].y = y \div 10

=============================================================================
